---------------------------- MODULE Spec2Model ----------------------------
(***************************************************************************)
(* A model of the BASIC-to-C translator: the Lexer of src/lex.py and the   *)
(* recursive-descent Parser of src/parse.py.                               *)
(*                                                                         *)
(* The source text is a sequence of one-character strings.  The lexer is   *)
(* a pure function of the Lexer object's fields; the parser is a machine   *)
(* whose control stack holds one frame per active method call, each frame  *)
(* naming the place in the method where the call will resume.              *)
(***************************************************************************)
EXTENDS Integers, Sequences, FiniteSets, TLC

VARIABLES
    source,          \* Lexer.source, as far as it has been read from the file
    curChar,         \* Lexer.curChar
    curPos,          \* Lexer.curPos
    curLine,         \* Lexer.curLine
    linePos,         \* Lexer.linePos
    curToken,        \* Parser.curToken
    peekToken,       \* Parser.peekToken
    symbols,         \* Parser.symbols
    labelsDeclared,  \* Parser.labelsDeclared
    labelsGotoed,    \* Parser.labelsGotoed
    header,          \* Emitter.header, one element per append
    code,            \* Emitter.code, one element per append
    stack,           \* the call stack of the parser's methods
    status,          \* "running", "done" (exit 0) or "aborted" (sys.exit(69))
    diag,            \* the line written to stderr by abort()
    run,             \* which run over the source this is (1 or 2)
    first            \* the outcome of the first run, once a second has begun

vars == <<source, curChar, curPos, curLine, linePos, curToken, peekToken,
          symbols, labelsDeclared, labelsGotoed, header, code, stack,
          status, diag, run, first>>

---------------------------------------------------------------------------
(* Bounds of the model. *)

\* SpecLex: the longest source text, in characters, before the appended "\n".
MaxSourceLen == 3
\* SpecVars: the most lexemes the file holds.
MaxVarsLexemes == 8
\* SpecLabels and SpecRuns: the most lexemes the file holds.
MaxLabelLexemes == 8
\* SpecParen: the most lexemes the file holds.
MaxParenLexemes == 8
\* SpecIf: the most lexemes the file holds.
MaxIfLexemes == 15
\* The lexemes of a file of blocks, strings and comments.
MaxHaltLexemes == 6

---------------------------------------------------------------------------
(* Characters. *)

\* Python's '\0', the lexer's end-of-input character.
NUL == "\\0"

Digits == {"0", "1", "2", "3", "4", "5", "6", "7", "8", "9"}

Letters == {"a", "b", "c", "d", "e", "f", "g", "h", "i", "j", "k", "l", "m",
            "n", "o", "p", "q", "r", "s", "t", "u", "v", "w", "x", "y", "z"}

isdigit(c) == c \in Digits

isalpha(c) == c \in Letters

RECURSIVE Join(_)
\* The string made of the characters of s: a slice of the source.
Join(s) == IF s = <<>> THEN "" ELSE Head(s) \o Join(Tail(s))

\* source[a:b] of Python (0-based, b excluded).
Slice(src, a, b) == Join(SubSeq(src, a + 1, b))

---------------------------------------------------------------------------
(* Tokens. *)

TokenType ==
    [EOF |-> -1, NEWLINE |-> 0, NUMBER |-> 1, IDENT |-> 2, STRING |-> 3,
     LPARENT |-> 4, RPARENT |-> 5,
     label |-> 101, goto |-> 102, print |-> 103, input |-> 104, let |-> 105,
     if_ |-> 106, then |-> 107, end |-> 108, while_ |-> 109, do |-> 110,
     and_ |-> 111, or_ |-> 112, not_ |-> 113, else_ |-> 114,
     EQ |-> 201, PLUS |-> 202, MINUS |-> 203, ASTERISK |-> 204,
     SLASH |-> 205, EQEQ |-> 206, NOTEQ |-> 207, LT |-> 208, LTEQ |-> 209,
     GT |-> 210, GTEQ |-> 211]

\* The text a keyword kind is matched against: the kind's name, without the
\* trailing underscore of the six kinds named after Python's reserved words.
KeywordText ==
    [label |-> "label", goto |-> "goto", print |-> "print",
     input |-> "input", let |-> "let", if_ |-> "if", then |-> "then",
     end |-> "end", while_ |-> "while", do |-> "do", and_ |-> "and",
     or_ |-> "or", not_ |-> "not", else_ |-> "else"]

Token(tokenText, tokenKind, line, col) ==
    [text |-> tokenText, kind |-> tokenKind, curLine |-> line, linePos |-> col]

\* Python's None, the parser's tokens before the first nextToken().
NoToken == Token("", "None", 0, 0)

isKeyword(text) ==
    LET kinds == {k \in DOMAIN TokenType :
                     /\ TokenType[k] >= 100
                     /\ TokenType[k] < 200
                     /\ KeywordText[k] = text}
    IN  IF kinds # {} THEN <<TRUE, CHOOSE k \in kinds : TRUE>>
                      ELSE <<FALSE, "None">>

---------------------------------------------------------------------------
(* The Lexer.  A lexer value lx is the record of the object's fields. *)
(* A method is an operator on such values.  Python evaluates an argument *)
(* once, before the call: an operator that reads its argument more than  *)
(* once binds it first, lx \in {lx_}, and its body reads the value bound. *)

\* Whether the text ends with the "\n" that Lexer.__init__ appends, that
\* is, whether the whole file has been read.
Complete(src_) ==
    CHOOSE result_ \in {(
        Len(src) > 0 /\ src[Len(src)] = "\n"
    ) : src \in {src_}} : TRUE

\* The character at curPos, or '\0' past the end of the source.
ReadChar(lx_) ==
    CHOOSE result_ \in {(
        [lx EXCEPT !.curChar = IF lx.curPos >= Len(lx.source)
                               THEN NUL
                               ELSE lx.source[lx.curPos + 1]]
    ) : lx \in {lx_}} : TRUE

\* self.curPos += 1; self.linePos += 1, and the character read there.
Advance(lx) == ReadChar([lx EXCEPT !.curPos = @ + 1, !.linePos = @ + 1])

nextChar(lx_) ==
    CHOOSE result_ \in {(
        Advance(IF lx.curChar = "\n"
                THEN [lx EXCEPT !.curLine = @ + 1, !.linePos = 1]
                ELSE lx)
    ) : lx \in {lx_}} : TRUE

\* Lexer.__init__ on a source that already holds the appended "\n".
LexerInit(src) ==
    nextChar([source |-> src, curChar |-> "", curPos |-> -1,
              curLine |-> 1, linePos |-> 0])

peek(lx_) ==
    CHOOSE result_ \in {(
        IF lx.curPos + 1 >= Len(lx.source) THEN NUL
                                           ELSE lx.source[lx.curPos + 2]
    ) : lx \in {lx_}} : TRUE

RECURSIVE skipWhitespace(_)
skipWhitespace(lx_) ==
    CHOOSE result_ \in {(
        IF lx.curChar = " " \/ lx.curChar = "\t" \/ lx.curChar = "\r"
        THEN skipWhitespace(nextChar(lx))
        ELSE lx
    ) : lx \in {lx_}} : TRUE

RECURSIVE SkipToNewline(_)
\* The loop of skipComment.
SkipToNewline(lx_) ==
    CHOOSE result_ \in {(
        IF lx.curChar # "\n" THEN SkipToNewline(nextChar(lx)) ELSE lx
    ) : lx \in {lx_}} : TRUE

skipComment(lx_) ==
    CHOOSE result_ \in {(
        IF lx.curChar = "#" THEN SkipToNewline(lx) ELSE lx
    ) : lx \in {lx_}} : TRUE

RECURSIVE WhilePeekDigit(_)
\* while self.peek().isdigit(): self.nextChar()
WhilePeekDigit(lx_) ==
    CHOOSE result_ \in {(
        IF isdigit(peek(lx)) THEN WhilePeekDigit(nextChar(lx)) ELSE lx
    ) : lx \in {lx_}} : TRUE

RECURSIVE WhilePeekAlpha(_)
\* while self.peek().isalpha(): self.nextChar()
WhilePeekAlpha(lx_) ==
    CHOOSE result_ \in {(
        IF isalpha(peek(lx)) THEN WhilePeekAlpha(nextChar(lx)) ELSE lx
    ) : lx \in {lx_}} : TRUE

IllegalInString == {"\r", "\n", "\t", "\\", "%"}

RECURSIVE ScanString(_)
\* The loop over a string literal's characters: the lexer at the closing
\* quote, or at the illegal character it aborts on.
ScanString(lx_) ==
    CHOOSE result_ \in {(
        IF lx.curChar = "\"" \/ lx.curChar \in IllegalInString
        THEN lx
        ELSE ScanString(nextChar(lx))
    ) : lx \in {lx_}} : TRUE

\* What a getToken() call comes to: the lexer after it, and either the
\* token returned or the message of the abort() that ended the run.
Lexed(lx, tok) == [lx |-> lx, token |-> tok, err |-> ""]

LexAbort(lx, message) == [lx |-> lx, token |-> NoToken, err |-> message]

\* A token made at lexer lx, then the nextChar() that ends getToken.
Emitted(lx_, text, kind) ==
    CHOOSE result_ \in {(
        Lexed(nextChar(lx), Token(text, kind, lx.curLine, lx.linePos))
    ) : lx \in {lx_}} : TRUE

\* A two-character operator: its second character is consumed first, and
\* l1 is the lexer standing on it.
TwoCharAt(lx, l1_, kind) ==
    CHOOSE result_ \in {(
        Emitted(l1, lx.curChar \o l1.curChar, kind)
    ) : l1 \in {l1_}} : TRUE

TwoChar(lx_, kind) ==
    CHOOSE result_ \in {(
        TwoCharAt(lx, nextChar(lx), kind)
    ) : lx \in {lx_}} : TRUE

\* A lexer that never looks past the operator's first character.
OneOrTwoNoLookahead(lx_, one, two) ==
    CHOOSE result_ \in {(
        Emitted(lx, lx.curChar, one)
    ) : lx \in {lx_}} : TRUE

\* = < > : the two-character kind when the next character is "=".
OneOrTwo(lx_, one, two) ==
    CHOOSE result_ \in {(
        IF peek(lx) = "=" THEN TwoChar(lx, two)
                          ELSE Emitted(lx, lx.curChar, one)
    ) : lx \in {lx_}} : TRUE

\* The ! of != : a lexical error when the next character is not "=".
Bang(lx_) ==
    CHOOSE result_ \in {(
        IF peek(lx) = "=" THEN TwoChar(lx, "NOTEQ")
                          ELSE LexAbort(lx, "Expected !=, got !" \o peek(lx))
    ) : lx \in {lx_}} : TRUE

\* A string literal: l1 is the lexer after the opening quote, l2 where the
\* scan of its characters has stopped.
StringEnd(l1, l2_) ==
    CHOOSE result_ \in {(
        IF l2.curChar # "\""
        THEN LexAbort(l2, "Illegal character in string: " \o l2.curChar)
        ELSE Emitted(l2, Slice(l2.source, l1.curPos, l2.curPos), "STRING")
    ) : l2 \in {l2_}} : TRUE

StringFrom(l1_) ==
    CHOOSE result_ \in {(
        StringEnd(l1, ScanString(l1))
    ) : l1 \in {l1_}} : TRUE

\* A number: lx is the lexer at its first digit, l1 at the last digit of
\* its integer part, l2 at the decimal point.
NumberEnd(lx, l3_) ==
    CHOOSE result_ \in {(
        Emitted(l3, Slice(l3.source, lx.curPos, l3.curPos + 1), "NUMBER")
    ) : l3 \in {l3_}} : TRUE

Fraction(lx, l2_) ==
    CHOOSE result_ \in {(
        IF ~isdigit(peek(l2))
        THEN LexAbort(l2, "Illegal character in number: " \o peek(l2))
        ELSE NumberEnd(lx, WhilePeekDigit(l2))
    ) : l2 \in {l2_}} : TRUE

Decimal(lx_, l1_) ==
    CHOOSE result_ \in {(
        IF peek(l1) = "." THEN Fraction(lx, nextChar(l1)) ELSE NumberEnd(lx, l1)
    ) : lx \in {lx_}, l1 \in {l1_}} : TRUE

\* An identifier or a keyword: kw is what isKeyword returns for its text.
Classified(l1, text, kw_) ==
    CHOOSE result_ \in {(
        Emitted(l1, text, IF kw[1] THEN kw[2] ELSE "IDENT")
    ) : kw \in {kw_}} : TRUE

WordEnd(l1, text_) ==
    CHOOSE result_ \in {(
        Classified(l1, text, isKeyword(text))
    ) : text \in {text_}} : TRUE

Word(lx, l1_) ==
    CHOOSE result_ \in {(
        WordEnd(l1, Slice(l1.source, lx.curPos, l1.curPos + 1))
    ) : l1 \in {l1_}} : TRUE

\* getToken() after its skipWhitespace() and skipComment().
TokenAt(lx_) ==
    CHOOSE result_ \in {(
        CASE lx.curChar = "+" -> Emitted(lx, lx.curChar, "PLUS")
          [] lx.curChar = "-" -> Emitted(lx, lx.curChar, "MINUS")
          [] lx.curChar = "*" -> Emitted(lx, lx.curChar, "ASTERISK")
          [] lx.curChar = "/" -> Emitted(lx, lx.curChar, "SLASH")
          [] lx.curChar = "=" -> OneOrTwo(lx, "EQ", "EQEQ")
          [] lx.curChar = ">" -> OneOrTwo(lx, "GT", "GTEQ")
          [] lx.curChar = "<" -> OneOrTwo(lx, "LT", "LTEQ")
          [] lx.curChar = "!" -> Bang(lx)
          [] lx.curChar = "\"" -> StringFrom(nextChar(lx))
          [] lx.curChar = "(" -> Emitted(lx, lx.curChar, "LPARENT")
          [] lx.curChar = ")" -> Emitted(lx, lx.curChar, "RPARENT")
          [] isdigit(lx.curChar) -> Decimal(lx, WhilePeekDigit(lx))
          [] isalpha(lx.curChar) -> Word(lx, WhilePeekAlpha(lx))
          [] lx.curChar = "\n" -> Emitted(lx, lx.curChar, "NEWLINE")
          [] lx.curChar = NUL -> Emitted(lx, lx.curChar, "EOF")
          [] OTHER -> LexAbort(lx, "Unknown token: " \o lx.curChar)
    ) : lx \in {lx_}} : TRUE

getToken(lx) == TokenAt(skipComment(skipWhitespace(lx)))

\* Lexer.abort: the line on stderr.
LexDiag(lx_, message) ==
    CHOOSE result_ \in {(
        [line |-> lx.curLine, col |-> lx.linePos,
         msg |-> "Lexing error. " \o message]
    ) : lx \in {lx_}} : TRUE

NoDiag == [line |-> 0, col |-> 0, msg |-> ""]

---------------------------------------------------------------------------
(* The machine: the Lexer, the Parser and the Emitter as one record m.     *)
(* m.feed is what the file holds after the part read so far, in the        *)
(* pieces the lexer will ask for; m.starved says that a step asked for     *)
(* more of the file than m.feed held.                                      *)

M == [lex |-> [source |-> source, curChar |-> curChar, curPos |-> curPos,
               curLine |-> curLine, linePos |-> linePos],
      curToken |-> curToken, peekToken |-> peekToken, symbols |-> symbols,
      labelsDeclared |-> labelsDeclared, labelsGotoed |-> labelsGotoed,
      header |-> header, code |-> code, stack |-> stack, status |-> status,
      diag |-> diag, feed |-> <<>>, starved |-> FALSE]

\* A run goes on until sys.exit(); a step of the model also stops where it
\* needs a part of the file that it was not given.
Live(m_) ==
    CHOOSE result_ \in {(
        m.status = "running" /\ ~m.starved
    ) : m \in {m_}} : TRUE

WithFeed(m, chunks) == [m EXCEPT !.feed = chunks]

\* The file's last piece: the "\n" that Lexer.__init__ appends to it.
EndOfSource == <<"\n">>

\* The lexer stands on the last character read of a file not read to its
\* end: the next getToken() needs the file's next piece.
NeedsFeed(lx_) ==
    CHOOSE result_ \in {(
        ~Complete(lx.source) /\ lx.curPos >= Len(lx.source) - 1
    ) : lx \in {lx_}} : TRUE

---------------------------------------------------------------------------
(* The Emitter (emit.py): it appends to two strings and is never read. *)

emit(m_, text) ==
    CHOOSE result_ \in {(
        IF Live(m) THEN [m EXCEPT !.code = Append(@, text)] ELSE m
    ) : m \in {m_}} : TRUE

emitLine(m_, text) ==
    CHOOSE result_ \in {(
        IF Live(m) THEN [m EXCEPT !.code = Append(@, text \o "\n")] ELSE m
    ) : m \in {m_}} : TRUE

headerLine(m_, text) ==
    CHOOSE result_ \in {(
        IF Live(m) THEN [m EXCEPT !.header = Append(@, text \o "\n")] ELSE m
    ) : m \in {m_}} : TRUE

---------------------------------------------------------------------------
(* The Parser's helpers. *)

checkToken(m, kind) == kind = m.curToken.kind

checkPeek(m, kind) == kind = m.peekToken.kind

abort(m_, message) ==
    CHOOSE result_ \in {(
        IF Live(m)
        THEN [m EXCEPT !.status = "aborted",
                       !.diag = [line |-> m.curToken.curLine,
                                 col |-> m.curToken.linePos,
                                 msg |-> "Error: " \o message]]
        ELSE m
    ) : m \in {m_}} : TRUE

\* self.curToken = self.peekToken; self.peekToken = got, where got is
\* what the getToken() call came to.
Shift(m_, got_) ==
    CHOOSE result_ \in {(
        IF got.err # ""
        THEN [m EXCEPT !.curToken = m.peekToken, !.lex = got.lx,
                       !.status = "aborted", !.diag = LexDiag(got.lx, got.err)]
        ELSE [m EXCEPT !.curToken = m.peekToken, !.peekToken = got.token,
                       !.lex = got.lx]
    ) : m \in {m_}, got \in {got_}} : TRUE

\* The file's next piece is read into the lexer's source.
Fed(m_) ==
    CHOOSE result_ \in {(
        [m EXCEPT !.lex.source = @ \o Head(m.feed), !.feed = Tail(m.feed)]
    ) : m \in {m_}} : TRUE

\* The getToken() call of nextToken().
Pull(m_) ==
    CHOOSE result_ \in {(
        Shift(m, getToken(m.lex))
    ) : m \in {m_}} : TRUE

nextToken(m_) ==
    CHOOSE result_ \in {(
        IF ~Live(m) THEN m
        ELSE IF NeedsFeed(m.lex) /\ m.feed = <<>>
        THEN [m EXCEPT !.starved = TRUE]
        ELSE Pull(IF NeedsFeed(m.lex) THEN Fed(m) ELSE m)
    ) : m \in {m_}} : TRUE

match(m_, kind_) ==
    CHOOSE result_ \in {(
        IF ~checkToken(m, kind)
        THEN abort(m, "Expected " \o kind \o ", got " \o m.curToken.text)
        ELSE nextToken(m)
    ) : m \in {m_}, kind \in {kind_}} : TRUE

isComparisonOp(m_) ==
    CHOOSE result_ \in {(
        \/ checkToken(m, "GT") \/ checkToken(m, "GTEQ") \/ checkToken(m, "LT")
        \/ checkToken(m, "LTEQ") \/ checkToken(m, "EQEQ")
        \/ checkToken(m, "NOTEQ")
    ) : m \in {m_}} : TRUE

---------------------------------------------------------------------------
(* The call stack.  A frame is the place where its method goes on, and     *)
(* expression()'s local hasParent.                                         *)

Frame(pc) == [pc |-> pc, hasParent |-> FALSE]

Top(m_) ==
    CHOOSE result_ \in {(
        m.stack[Len(m.stack)]
    ) : m \in {m_}} : TRUE

\* The method goes on at pc.
Goto(m_, pc) ==
    CHOOSE result_ \in {(
        IF Live(m) THEN [m EXCEPT !.stack[Len(m.stack)].pc = pc] ELSE m
    ) : m \in {m_}} : TRUE

\* The method calls callee and goes on at ret when it returns.
Call(m_, ret, callee) ==
    CHOOSE result_ \in {(
        IF Live(m)
        THEN [m EXCEPT !.stack = Append([@ EXCEPT ![Len(@)].pc = ret],
                                        Frame(callee))]
        ELSE m
    ) : m \in {m_}} : TRUE

Return(m_) ==
    CHOOSE result_ \in {(
        IF Live(m) THEN [m EXCEPT !.stack = SubSeq(@, 1, Len(@) - 1)] ELSE m
    ) : m \in {m_}} : TRUE

---------------------------------------------------------------------------
(* The Parser's methods.  Each is a function of the machine: the step that *)
(* the method takes from the place its frame names, up to its next call,   *)
(* its return or the abort.  The print() traces on stdout are left out.    *)

\* The order in which Python iterates over the set s: any order, since the
\* hash of a str changes from one process to the next.
Orders(s_) ==
    CHOOSE result_ \in {(
        {o \in [1..Cardinality(s) -> s] : \A i, j \in DOMAIN o : o[i] = o[j] => i = j}
    ) : s \in {s_}} : TRUE

\* The labels of the iteration it that are not declared, in its order.
Undeclared(m, it) == SelectSeq(it, LAMBDA l : l \notin m.labelsDeclared)

\* program() returns: the process exits with status 0.
Finish(m_) ==
    CHOOSE result_ \in {(
        IF Live(m) THEN [m EXCEPT !.status = "done", !.stack = <<>>] ELSE m
    ) : m \in {m_}} : TRUE

\* A program() without its check of the labels.
labelCheckNone(m, it) == Finish(m)

\* The check after the closing boilerplate, with labelsGotoed iterated in
\* the order it.
labelCheck(m_, it_) ==
    CHOOSE result_ \in {(
        IF Undeclared(m, it) # <<>>
        THEN abort(m, "Attempting to GOTO to undeclared label: "
                        \o Head(Undeclared(m, it)))
        ELSE Finish(m)
    ) : m \in {m_}, it \in {it_}} : TRUE

program(m_, it) ==
    CHOOSE result_ \in {(
        CASE Top(m).pc = "program" ->
                Goto(headerLine(headerLine(m, "#include <stdio.h>"),
                                "int main(void) {"),
                     "program_strip")
          [] Top(m).pc = "program_strip" ->
                IF checkToken(m, "NEWLINE") THEN nextToken(m)
                                            ELSE Goto(m, "program_loop")
          [] Top(m).pc = "program_loop" ->
                IF ~checkToken(m, "EOF")
                THEN Call(m, "program_loop", "statement")
                ELSE labelCheck(emitLine(emitLine(m, "return 0;"), "}"), it)
    ) : m \in {m_}} : TRUE

\* "PRINT" (expression | string), after the nextToken() over PRINT
printWhat(m_) ==
    CHOOSE result_ \in {(
        IF checkToken(m, "STRING")
        THEN Goto(nextToken(emitLine(m, "printf(\"" \o m.curToken.text
                                          \o "\\n\");")),
                  "nl")
        ELSE Call(emit(m, "printf(\"%.2f\\n\", (float)("),
                  "print_end", "expression")
    ) : m \in {m_}} : TRUE

printStatement(m) == printWhat(nextToken(m))

\* self.labelsDeclared.add(self.curToken.text)
addDeclared(m_) ==
    CHOOSE result_ \in {(
        IF Live(m) THEN [m EXCEPT !.labelsDeclared = @ \cup {m.curToken.text}]
                   ELSE m
    ) : m \in {m_}} : TRUE

\* "LABEL" ident, after the nextToken() over LABEL
labelName(m_) ==
    CHOOSE result_ \in {(
        IF m.curToken.text \in m.labelsDeclared
        THEN abort(m, "Label already exists: " \o m.curToken.text)
        ELSE Goto(match(emitLine(addDeclared(m), m.curToken.text \o ":"),
                        "IDENT"),
                  "nl")
    ) : m \in {m_}} : TRUE

labelStatement(m) == labelName(nextToken(m))

\* self.labelsGotoed.add(self.curToken.text)
addGotoed(m_) ==
    CHOOSE result_ \in {(
        IF Live(m) THEN [m EXCEPT !.labelsGotoed = @ \cup {m.curToken.text}]
                   ELSE m
    ) : m \in {m_}} : TRUE

\* "GOTO" ident, after the nextToken() over GOTO
gotoName(m_) ==
    CHOOSE result_ \in {(
        Goto(match(emitLine(addGotoed(m), "goto " \o m.curToken.text \o ";"),
                   "IDENT"),
             "nl")
    ) : m \in {m_}} : TRUE

gotoStatement(m) == gotoName(nextToken(m))

\* A declaration emitted at every let and input, known variable or not.
declareAgain(m_) ==
    CHOOSE result_ \in {(
        IF Live(m)
        THEN headerLine([m EXCEPT !.symbols = @ \cup {m.curToken.text}],
                        "float " \o m.curToken.text \o ";")
        ELSE m
    ) : m \in {m_}} : TRUE

\* The first occurrence of a variable in a let or an input declares it.
declare(m_) ==
    CHOOSE result_ \in {(
        IF Live(m) /\ m.curToken.text \notin m.symbols
        THEN headerLine([m EXCEPT !.symbols = @ \cup {m.curToken.text}],
                        "float " \o m.curToken.text \o ";")
        ELSE m
    ) : m \in {m_}} : TRUE

\* "LET" ident, after the nextToken() over LET and up to the match of the
\* identifier
letName(m_) ==
    CHOOSE result_ \in {(
        Goto(match(emit(declare(m), m.curToken.text \o "="), "IDENT"), "let_eq")
    ) : m \in {m_}} : TRUE

letStatement(m) == letName(nextToken(m))

\* The guarded scanf of an input statement.
emitScanf(m, name_) ==
    CHOOSE result_ \in {(
        emitLine(emitLine(emit(emitLine(emitLine(m,
            "if(0 == scanf(\"%f\", &" \o name \o ")) {"),
            name \o " = 0;"),
            "scanf(\"%"),
            "*s\");"),
            "}")
    ) : name \in {name_}} : TRUE

\* "INPUT" ident, after the nextToken() over INPUT
inputName(m_) ==
    CHOOSE result_ \in {(
        Goto(match(emitScanf(declare(m), m.curToken.text), "IDENT"), "nl")
    ) : m \in {m_}} : TRUE

inputStatement(m) == inputName(nextToken(m))

\* ident "=" expression | expression
identStatement(m_) ==
    CHOOSE result_ \in {(
        IF checkPeek(m, "EQ")
        THEN Call(nextToken(nextToken(emit(m, m.curToken.text \o "="))),
                  "ident_end", "expression")
        ELSE Call(m, "ident_end", "expression")
    ) : m \in {m_}} : TRUE

\* One turn of the loop over an if statement's body.
ifLoop(m_) ==
    CHOOSE result_ \in {(
        IF ~checkToken(m, "end")
        THEN IF checkToken(m, "else_") /\ checkPeek(m, "if_")
             THEN Call(nextToken(nextToken(emit(m, "}else if("))),
                       "elif_then", "comparison")
             ELSE IF checkToken(m, "else_")
             THEN Call(nextToken(m), "else_open", "nl")
             ELSE Call(m, "if_loop", "statement")
        ELSE Goto(emitLine(match(m, "end"), "}"), "nl")
    ) : m \in {m_}} : TRUE

\* A while loop that does not call statement() at the end of the input.
whileLoopSpins(m_) ==
    CHOOSE result_ \in {(
        IF checkToken(m, "EOF") THEN m
        ELSE IF ~checkToken(m, "end")
        THEN Call(m, "while_loop", "statement")
        ELSE Goto(emitLine(match(m, "end"), "}"), "nl")
    ) : m \in {m_}} : TRUE

\* One turn of the loop over a while statement's body.
whileLoop(m_) ==
    CHOOSE result_ \in {(
        IF ~checkToken(m, "end")
        THEN Call(m, "while_loop", "statement")
        ELSE Goto(emitLine(match(m, "end"), "}"), "nl")
    ) : m \in {m_}} : TRUE

statement(m_) ==
    CHOOSE result_ \in {(
        CASE Top(m).pc = "statement" ->
                CASE checkToken(m, "print") -> printStatement(m)
                  [] checkToken(m, "if_") ->
                        Call(nextToken(emit(m, "if(")), "if_then", "comparison")
                  [] checkToken(m, "while_") ->
                        Call(nextToken(emit(m, "while (")), "while_do",
                             "comparison")
                  [] checkToken(m, "label") -> labelStatement(m)
                  [] checkToken(m, "goto") -> gotoStatement(m)
                  [] checkToken(m, "let") -> letStatement(m)
                  [] checkToken(m, "input") -> inputStatement(m)
                  [] checkToken(m, "IDENT") -> identStatement(m)
                  [] OTHER ->
                        abort(m, "Invalid statement at " \o m.curToken.text
                                   \o " (" \o m.curToken.kind \o ")")
          [] Top(m).pc = "print_end" -> Goto(emitLine(m, "));"), "nl")
          [] Top(m).pc = "if_then" -> Call(match(m, "then"), "if_open", "nl")
          [] Top(m).pc = "if_open" -> Goto(emitLine(m, "){"), "if_loop")
          [] Top(m).pc = "if_loop" -> ifLoop(m)
          [] Top(m).pc = "elif_then" -> Call(match(m, "then"), "elif_open", "nl")
          [] Top(m).pc = "elif_open" ->
                Call(emitLine(m, "){"), "if_loop", "statement")
          [] Top(m).pc = "else_open" ->
                Call(emitLine(m, "}else{"), "if_loop", "statement")
          [] Top(m).pc = "while_do" -> Call(match(m, "do"), "while_open", "nl")
          [] Top(m).pc = "while_open" -> Goto(emitLine(m, "){"), "while_loop")
          [] Top(m).pc = "while_loop" -> whileLoop(m)
          [] Top(m).pc = "let_eq" ->
                Call(match(m, "EQ"), "let_end", "expression")
          [] Top(m).pc = "let_end" -> Goto(emitLine(m, ";"), "nl")
          [] Top(m).pc = "ident_end" -> Goto(emitLine(m, ";"), "nl")
    ) : m \in {m_}} : TRUE

StatementPcs ==
    {"statement", "print_end", "if_then", "if_open", "if_loop", "elif_then",
     "elif_open", "else_open", "while_do", "while_open", "while_loop",
     "let_eq", "let_end", "ident_end"}

comparison(m_) ==
    CHOOSE result_ \in {(
        CASE Top(m).pc = "comparison" -> Call(m, "cmp_first", "expression")
          [] Top(m).pc = "cmp_first" ->
                IF isComparisonOp(m)
                THEN Call(nextToken(emit(m, m.curToken.text)), "cmp_loop",
                          "expression")
                ELSE abort(m, "Expected comparison operator at: "
                                \o m.curToken.text \o " got ("
                                \o m.curToken.kind \o ")")
          [] Top(m).pc = "cmp_loop" ->
                IF isComparisonOp(m)
                THEN Call(nextToken(emit(m, m.curToken.text)), "cmp_loop",
                          "expression")
                ELSE Return(m)
    ) : m \in {m_}} : TRUE

\* The end of expression(): the closing parenthesis, when one was opened.
closeParent(m_) ==
    CHOOSE result_ \in {(
        IF Top(m).hasParent
        THEN Return(nextToken(emit(match(m, "RPARENT"), ")")))
        ELSE Return(m)
    ) : m \in {m_}} : TRUE

\* hasParent = value, in expression()'s frame
setHasParent(m_, value) ==
    CHOOSE result_ \in {(
        IF Live(m) THEN [m EXCEPT !.stack[Len(m.stack)].hasParent = value]
                   ELSE m
    ) : m \in {m_}} : TRUE

\* The start of expression(), after its "not": "0 or 1 parenthese", then
\* the first term.
openParent(m_) ==
    CHOOSE result_ \in {(
        IF checkToken(m, "LPARENT")
        THEN Call(setHasParent(nextToken(emit(m, "(")), TRUE), "expr_loop",
                  "term")
        ELSE Call(setHasParent(m, FALSE), "expr_loop", "term")
    ) : m \in {m_}} : TRUE

expression(m_) ==
    CHOOSE result_ \in {(
        CASE Top(m).pc = "expression" ->
                openParent(IF checkToken(m, "not_") THEN nextToken(emit(m, "!"))
                                                    ELSE m)
          [] Top(m).pc = "expr_loop" ->
                IF checkToken(m, "PLUS") \/ checkToken(m, "MINUS")
                THEN Call(nextToken(emit(m, m.curToken.text)), "expr_loop",
                          "term")
                ELSE IF checkToken(m, "and_")
                THEN Call(nextToken(emit(m, "&&")), "expr_close", "expression")
                ELSE closeParent(m)
          [] Top(m).pc = "expr_close" -> closeParent(m)
    ) : m \in {m_}} : TRUE

term(m_) ==
    CHOOSE result_ \in {(
        CASE Top(m).pc = "term" -> Call(m, "term_loop", "unary")
          [] Top(m).pc = "term_loop" ->
                IF checkToken(m, "SLASH") \/ checkToken(m, "ASTERISK")
                THEN Call(nextToken(emit(m, m.curToken.text)), "term_loop",
                          "unary")
                ELSE Return(m)
    ) : m \in {m_}} : TRUE

\* unary() ends with the call of value() and returns what it returns.
unary(m_) ==
    CHOOSE result_ \in {(
        IF checkToken(m, "PLUS") \/ checkToken(m, "MINUS")
        THEN Goto(nextToken(emit(m, m.curToken.text)), "value")
        ELSE Goto(m, "value")
    ) : m \in {m_}} : TRUE

\* A value() whose check of the identifier comes after its emission.
valueLateCheck(m_) ==
    CHOOSE result_ \in {(
        CASE checkToken(m, "NUMBER") ->
                Return(nextToken(emit(m, m.curToken.text)))
          [] checkToken(m, "STRING") ->
                Return(nextToken(emit(m, "\"" \o m.curToken.text \o "\"")))
          [] checkToken(m, "IDENT") ->
                IF m.curToken.text \notin m.symbols
                THEN abort(emit(m, m.curToken.text),
                           "Referencing variable before assignment: "
                             \o m.curToken.text)
                ELSE Return(nextToken(emit(m, m.curToken.text)))
          [] OTHER -> abort(m, "Unexpected token at " \o m.curToken.text)
    ) : m \in {m_}} : TRUE

value(m_) ==
    CHOOSE result_ \in {(
        CASE checkToken(m, "NUMBER") ->
                Return(nextToken(emit(m, m.curToken.text)))
          [] checkToken(m, "STRING") ->
                Return(nextToken(emit(m, "\"" \o m.curToken.text \o "\"")))
          [] checkToken(m, "IDENT") ->
                IF m.curToken.text \notin m.symbols
                THEN abort(m, "Referencing variable before assignment: "
                                \o m.curToken.text)
                ELSE Return(nextToken(emit(m, m.curToken.text)))
          [] OTHER -> abort(m, "Unexpected token at " \o m.curToken.text)
    ) : m \in {m_}} : TRUE

nl(m_) ==
    CHOOSE result_ \in {(
        CASE Top(m).pc = "nl" -> Goto(match(m, "NEWLINE"), "nl_loop")
          [] Top(m).pc = "nl_loop" ->
                IF checkToken(m, "NEWLINE") THEN nextToken(m) ELSE Return(m)
    ) : m \in {m_}} : TRUE

---------------------------------------------------------------------------
(* The file.  A specification reads its file lexeme by lexeme: the part of *)
(* the file that no getToken() has reached yet cannot have changed the run *)
(* so far, so it is chosen when the lexer first needs it.  A lexeme is a   *)
(* token's text and the space after it.                                    *)

LexLet    == <<"l", "e", "t", " ">>
LexInput  == <<"i", "n", "p", "u", "t", " ">>
LexPrint  == <<"p", "r", "i", "n", "t", " ">>
LexLabel  == <<"l", "a", "b", "e", "l", " ">>
LexGoto   == <<"g", "o", "t", "o", " ">>
LexIf     == <<"i", "f", " ">>
LexThen   == <<"t", "h", "e", "n", " ">>
LexElse   == <<"e", "l", "s", "e", " ">>
LexEnd    == <<"e", "n", "d", " ">>
LexWhile  == <<"w", "h", "i", "l", "e", " ">>
LexDo     == <<"d", "o", " ">>
LexAnd    == <<"a", "n", "d", " ">>
LexX      == <<"x", " ">>
LexY      == <<"y", " ">>
LexA      == <<"a", " ">>
LexB      == <<"b", " ">>
LexOne    == <<"1", " ">>
LexEq     == <<"=", " ">>
LexGt     == <<">", " ">>
LexPlus   == <<"+", " ">>
LexOpen   == <<"(", " ">>
LexClose  == <<")", " ">>
LexNl     == <<"\n", " ">>
\* A string literal, and a comment with the newline that ends its line.
LexString  == <<"\"", "a", "\"", " ">>
LexComment == <<"#", "a", "\n", " ">>

\* The end of a file whose last line is a string literal with no closing
\* quote, or a comment: the text, and the "\n" that Lexer.__init__ appends.
LastOpenString == <<"\"", "a">> \o EndOfSource
LastComment    == <<"#", "a">> \o EndOfSource

\* The lexemes of the file read so far.
Lexemes(src_) ==
    CHOOSE result_ \in {(
        Cardinality({i \in DOMAIN src : src[i] = " "})
    ) : src \in {src_}} : TRUE

\* What the file may hold next when it holds n lexemes: one more lexeme of
\* the vocabulary, or its end, with or without a last line.
Chunks(cfg_, n) ==
    CHOOSE result_ \in {(
        {EndOfSource} \cup (IF n < cfg.max THEN cfg.vocab
                                            ELSE {c \in cfg.vocab : Complete(c)})
    ) : cfg \in {cfg_}} : TRUE

\* The state as the record m, and the record m as the next state.
Load(m) ==
    /\ source = m.lex.source
    /\ curChar = m.lex.curChar
    /\ curPos = m.lex.curPos
    /\ curLine = m.lex.curLine
    /\ linePos = m.lex.linePos
    /\ curToken = m.curToken
    /\ peekToken = m.peekToken
    /\ symbols = m.symbols
    /\ labelsDeclared = m.labelsDeclared
    /\ labelsGotoed = m.labelsGotoed
    /\ header = m.header
    /\ code = m.code
    /\ stack = m.stack
    /\ status = m.status
    /\ diag = m.diag

Set(m) ==
    /\ source' = m.lex.source
    /\ curChar' = m.lex.curChar
    /\ curPos' = m.lex.curPos
    /\ curLine' = m.lex.curLine
    /\ linePos' = m.lex.linePos
    /\ curToken' = m.curToken
    /\ peekToken' = m.peekToken
    /\ symbols' = m.symbols
    /\ labelsDeclared' = m.labelsDeclared
    /\ labelsGotoed' = m.labelsGotoed
    /\ header' = m.header
    /\ code' = m.code
    /\ stack' = m.stack
    /\ status' = m.status
    /\ diag' = m.diag

\* One step of the method Op: with as much of the file, and no more, as
\* the step reads.  No step calls nextToken() more than twice.
Fed2(Op(_), cfg, e1, r1) ==
    IF ~r1.starved THEN Set(r1)
    ELSE \E e2 \in Chunks(cfg, Lexemes(source) + 1) :
            \E r2 \in {Op(WithFeed(M, <<e1, e2>>))} : Set(r2)

Fed1(Op(_), cfg, r0) ==
    IF ~r0.starved THEN Set(r0)
    ELSE \E e1 \in Chunks(cfg, Lexemes(source)) :
            \E r1 \in {Op(WithFeed(M, <<e1>>))} : Fed2(Op, cfg, e1, r1)

Step(Op(_), cfg) == \E r0 \in {Op(M)} : Fed1(Op, cfg, r0)

\* Lexer(source, name) and Parser(lexer, emitter): the objects as built,
\* the parser's constructor having called nextToken() twice.
Constructed(src, chunks) ==
    LET m0 == [lex |-> LexerInit(src),
               curToken |-> NoToken, peekToken |-> NoToken,
               symbols |-> {}, labelsDeclared |-> {}, labelsGotoed |-> {},
               header |-> <<>>, code |-> <<>>,
               stack |-> <<Frame("program")>>, status |-> "running",
               diag |-> NoDiag, feed |-> chunks, starved |-> FALSE]
    IN  nextToken(nextToken(m0))

---------------------------------------------------------------------------
(* The actions: one per method of the Parser. *)

Program(cfg) ==
    /\ status = "running" /\ stack # <<>>
    /\ Top(M).pc \in {"program", "program_strip", "program_loop"}
    /\ \E it \in Orders(labelsGotoed) : Step(LAMBDA m : program(m, it), cfg)
    /\ UNCHANGED <<run, first>>

Statement(cfg) ==
    /\ status = "running" /\ stack # <<>>
    /\ Top(M).pc \in StatementPcs
    /\ Step(statement, cfg)
    /\ UNCHANGED <<run, first>>

Comparison(cfg) ==
    /\ status = "running" /\ stack # <<>>
    /\ Top(M).pc \in {"comparison", "cmp_first", "cmp_loop"}
    /\ Step(comparison, cfg)
    /\ UNCHANGED <<run, first>>

Expression(cfg) ==
    /\ status = "running" /\ stack # <<>>
    /\ Top(M).pc \in {"expression", "expr_loop", "expr_close"}
    /\ Step(expression, cfg)
    /\ UNCHANGED <<run, first>>

Term(cfg) ==
    /\ status = "running" /\ stack # <<>>
    /\ Top(M).pc \in {"term", "term_loop"}
    /\ Step(term, cfg)
    /\ UNCHANGED <<run, first>>

Unary(cfg) ==
    /\ status = "running" /\ stack # <<>>
    /\ Top(M).pc = "unary"
    /\ Step(unary, cfg)
    /\ UNCHANGED <<run, first>>

Value(cfg) ==
    /\ status = "running" /\ stack # <<>>
    /\ Top(M).pc = "value"
    /\ Step(value, cfg)
    /\ UNCHANGED <<run, first>>

Nl(cfg) ==
    /\ status = "running" /\ stack # <<>>
    /\ Top(M).pc \in {"nl", "nl_loop"}
    /\ Step(nl, cfg)
    /\ UNCHANGED <<run, first>>

\* The outcome of a run: what it wrote and how it ended.
Outcome == [status |-> status, diag |-> diag, header |-> header, code |-> code]

NoOutcome == [status |-> "none", diag |-> NoDiag, header |-> <<>>, code |-> <<>>]

\* The whole file, of which the run has read the part it needed.
WholeSource == IF Complete(source) THEN source ELSE source \o EndOfSource

\* A second, independent run over the same file: new Lexer, Parser and
\* Emitter objects.
Rerun ==
    /\ run = 1
    /\ status # "running"
    /\ run' = 2
    /\ first' = Outcome
    /\ Set(Constructed(WholeSource, <<>>))

\* Parser.nextToken() called on its own, until the end of the input.
NextToken ==
    /\ status = "running" /\ stack = <<>>
    /\ peekToken.kind # "EOF"
    /\ Set(nextToken(M))
    /\ UNCHANGED <<run, first>>

---------------------------------------------------------------------------
(* The specifications. *)

\* A file of the vocabulary of cfg: the state after the constructors.
InitFile(cfg) ==
    /\ \E e0 \in Chunks(cfg, 0) :
          \E e1 \in Chunks(cfg, 1) : Load(Constructed(e0, <<e1>>))
    /\ run = 1
    /\ first = NoOutcome


\* Variables: let, input, print, assignments and reads of x and y.
CfgVars ==
    [vocab |-> {LexLet, LexInput, LexPrint, LexX, LexY, LexEq, LexOne, LexNl},
     max |-> MaxVarsLexemes]

InitVars == InitFile(CfgVars)

NextVars ==
    \/ Program(CfgVars)
    \/ Statement(CfgVars)
    \/ Expression(CfgVars)
    \/ Term(CfgVars)
    \/ Unary(CfgVars)
    \/ Value(CfgVars)
    \/ Nl(CfgVars)

SpecVars == InitVars /\ [][NextVars]_vars

\* Labels: label and goto of a and b.
CfgLabels ==
    [vocab |-> {LexLabel, LexGoto, LexA, LexB, LexNl},
     max |-> MaxLabelLexemes]

InitLabels == InitFile(CfgLabels)

NextLabels ==
    \/ Program(CfgLabels)
    \/ Statement(CfgLabels)
    \/ Nl(CfgLabels)

SpecLabels == InitLabels /\ [][NextLabels]_vars

\* Two runs over one file of labels and gotos.
NextRuns ==
    \/ Program(CfgLabels)
    \/ Statement(CfgLabels)
    \/ Nl(CfgLabels)
    \/ Rerun

SpecRuns == InitLabels /\ [][NextRuns]_vars

\* Parentheses: print of sums of 1, with and without parentheses.
CfgParen ==
    [vocab |-> {LexPrint, LexOpen, LexClose, LexOne, LexPlus, LexNl},
     max |-> MaxParenLexemes]

InitParen == InitFile(CfgParen)

NextParen ==
    \/ Program(CfgParen)
    \/ Statement(CfgParen)
    \/ Expression(CfgParen)
    \/ Term(CfgParen)
    \/ Unary(CfgParen)
    \/ Value(CfgParen)
    \/ Nl(CfgParen)

SpecParen == InitParen /\ [][NextParen]_vars

\* If statements, with goto a as the statement of a branch.
CfgIf ==
    [vocab |-> {LexIf, LexThen, LexElse, LexEnd, LexOne, LexGt, LexNl,
                LexGoto, LexA},
     max |-> MaxIfLexemes]

InitIf == InitFile(CfgIf)

NextIf ==
    \/ Program(CfgIf)
    \/ Statement(CfgIf)
    \/ Comparison(CfgIf)
    \/ Expression(CfgIf)
    \/ Term(CfgIf)
    \/ Unary(CfgIf)
    \/ Value(CfgIf)
    \/ Nl(CfgIf)

SpecIf == InitIf /\ [][NextIf]_vars

\* Blocks with and without their end, strings and comments, the last line
\* of the file included.  The interpreter runs the one thread of the
\* program without pause, so a step that can be taken is taken.
CfgHalt ==
    [vocab |-> {LexIf, LexThen, LexEnd, LexWhile, LexDo, LexOne, LexGt,
                LexNl, LexPrint, LexString, LexComment, LastOpenString,
                LastComment},
     max |-> MaxHaltLexemes]

InitHalt == InitFile(CfgHalt)

NextHalt ==
    \/ Program(CfgHalt)
    \/ Statement(CfgHalt)
    \/ Comparison(CfgHalt)
    \/ Expression(CfgHalt)
    \/ Term(CfgHalt)
    \/ Unary(CfgHalt)
    \/ Value(CfgHalt)
    \/ Nl(CfgHalt)

SpecHalt == InitHalt /\ [][NextHalt]_vars /\ WF_vars(NextHalt)

\* The lexer alone, on every text of at most MaxSourceLen characters.
LexChars ==
    {"=", "<", ">", "!", "+", "-", "*", "/", "(", ")", " ", "\n", "1", "a",
     "\"", "#", "."}

Texts == UNION {[1..n -> LexChars] : n \in 0..MaxSourceLen}

InitLex ==
    /\ \E text \in Texts :
          Load([lex |-> LexerInit(text \o EndOfSource),
                curToken |-> NoToken, peekToken |-> NoToken,
                symbols |-> {}, labelsDeclared |-> {}, labelsGotoed |-> {},
                header |-> <<>>, code |-> <<>>, stack |-> <<>>,
                status |-> "running", diag |-> NoDiag])
    /\ run = 1
    /\ first = NoOutcome

SpecLex == InitLex /\ [][NextToken]_vars

---------------------------------------------------------------------------
(* The properties of the lexer and the parser. *)

\* The parser stands at the place pc of its innermost method.
At(pc) == status = "running" /\ stack # <<>> /\ Top(M).pc = pc

Last(s) == s[Len(s)]

\* C1: when value() meets an identifier that is not in symbols, the run
\* aborts at that token: the diagnostic carries the token's position, the
\* identifier is not emitted, the parser consumes no further token, and
\* this whatever the rest of the file holds.
C1_UndefinedReadAborts ==
    [][(At("value") /\ curToken.kind = "IDENT" /\ curToken.text \notin symbols)
         => /\ status' = "aborted"
            /\ diag' = [line |-> curToken.curLine, col |-> curToken.linePos,
                        msg |-> "Error: Referencing variable before assignment: "
                                  \o curToken.text]
            /\ code' = code
            /\ header' = header
            /\ curToken' = curToken
            /\ peekToken' = peekToken
            /\ curPos' = curPos
            /\ source' = source
            /\ symbols' = symbols]_vars

\* C1's case: the run has aborted on the read of an identifier that no let
\* or input had declared, after another variable was declared.
C1_Witness ==
    /\ status = "aborted"
    /\ curToken.kind = "IDENT"
    /\ curToken.text \notin symbols
    /\ symbols # {}
    /\ diag.msg = "Error: Referencing variable before assignment: "
                    \o curToken.text

\* C2: a bare assignment <id> = <expr> whose identifier is not in symbols
\* aborts, and emits no assignment to it.
C2_BareAssignmentNeedsDeclaration ==
    [][(/\ At("statement")
        /\ curToken.kind = "IDENT"
        /\ peekToken.kind = "EQ"
        /\ curToken.text \notin symbols)
         => (status' = "aborted" /\ code' = code)]_vars

\* "Attempting to GOTO to undeclared label", for the label l.
GotoDiag(l) == "Error: Attempting to GOTO to undeclared label: " \o l

\* The closing boilerplate is the last thing emitted.
ClosingEmitted ==
    /\ Len(code) >= 2
    /\ code[Len(code) - 1] = "return 0;\n"
    /\ code[Len(code)] = "}\n"

\* C3: a run with no other error succeeds exactly when every label of a
\* goto is declared once all statements are parsed; the abort for an
\* undeclared label comes only then, after the closing boilerplate, never
\* at the goto, and names a label that is gotoed and not declared.
C3_LabelsResolvedAtEnd ==
    /\ status = "done" => labelsGotoed \subseteq labelsDeclared
    /\ (status # "running" /\ ClosingEmitted)
         => (status = "done" <=> labelsGotoed \subseteq labelsDeclared)
    /\ (status = "aborted"
          /\ diag.msg \in {GotoDiag(l) : l \in labelsGotoed \cup labelsDeclared
                                               \cup {curToken.text}})
         => /\ curToken.kind = "EOF"
            /\ ClosingEmitted
            /\ diag.msg \in {GotoDiag(l) : l \in labelsGotoed \ labelsDeclared}

\* C3's case: a run that succeeded with a goto whose label is declared
\* after it.
C3_Witness ==
    /\ status = "done"
    /\ \E i, j \in DOMAIN code :
          i < j /\ code[i] = "goto a;\n" /\ code[j] = "a:\n"

\* The tokens of the text from the lexer lx on, up to the end of the input
\* or the lexical error.
RECURSIVE TokensAfter(_)
TokensFrom(got) ==
    IF got.err # "" \/ got.token.kind = "EOF" THEN <<>>
    ELSE <<got.token>> \o TokensAfter(got.lx)

TokensAfter(lx) == TokensFrom(getToken(lx))

Tokens(src) == TokensAfter(LexerInit(src))

\* Token t comes before token u in the text.
Before(t, u) ==
    \/ t.curLine < u.curLine
    \/ t.curLine = u.curLine /\ t.linePos < u.linePos

\* Among the tokens toks, a let or input of the name of tok, in a statement
\* that ends (with its newline) before tok.
DeclaredEarlier(toks, tok) ==
    \E i, k \in DOMAIN toks :
        /\ i < k
        /\ toks[i].kind \in {"let", "input"}
        /\ toks[i + 1].kind = "IDENT"
        /\ toks[i + 1].text = tok.text
        /\ toks[k].kind = "NEWLINE"
        /\ Before(toks[k], tok)

\* C4: an identifier that value() is about to accept was declared by a let
\* or an input statement that comes before the statement of the read.
C4_ReadsAreDeclaredEarlier ==
    (At("value") /\ curToken.kind = "IDENT" /\ curToken.text \in symbols)
        => DeclaredEarlier(Tokens(source), curToken)

\* C5: when expression() opened a parenthesis, its end consumes the closing
\* parenthesis and nothing more: the current token is then the token that
\* followed it.
C5_ClosingParenthesisOnly ==
    [][(/\ status = "running" /\ stack # <<>>
        /\ Top(M).pc \in {"expr_loop", "expr_close"}
        /\ Top(M).hasParent
        /\ curToken.kind = "RPARENT"
        /\ status' = "running")
         => curToken' = peekToken]_vars

\* "Invalid statement at", for the token tok.
InvalidDiag(tok) ==
    "Error: Invalid statement at " \o tok.text \o " (" \o tok.kind \o ")"

\* The run aborted on the first token of a branch of an if statement, the
\* last thing emitted being the branch's header.
BranchRejected(headers, kinds) ==
    /\ status = "aborted"
    /\ diag.msg = InvalidDiag(curToken)
    /\ curToken.kind \in kinds
    /\ Len(stack) >= 2
    /\ stack[Len(stack) - 1].pc = "if_loop"
    /\ code # <<>>
    /\ Last(code) \in headers

RECURSIVE ElseAfterElse(_, _, _)
\* In the emitted code c from its i-th element on, some if statement has
\* an else or an else-if after its else; open holds, for each block open
\* at i, whether its else was emitted.
ElseAfterElse(c, i, open) ==
    IF i > Len(c) THEN FALSE
    ELSE CASE c[i] \in {"if(", "while ("} ->
                ElseAfterElse(c, i + 1, Append(open, FALSE))
           [] c[i] = "}else{\n" /\ open # <<>> ->
                \/ Last(open)
                \/ ElseAfterElse(c, i + 1, [open EXCEPT ![Len(open)] = TRUE])
           [] c[i] = "}else if(" /\ open # <<>> ->
                Last(open) \/ ElseAfterElse(c, i + 1, open)
           [] c[i] = "}\n" /\ open # <<>> ->
                ElseAfterElse(c, i + 1, SubSeq(open, 1, Len(open) - 1))
           [] OTHER -> ElseAfterElse(c, i + 1, open)

\* C6: an if statement is accepted exactly when it follows the grammar: an
\* else or else-if branch may hold no statement, and no else or else-if
\* may follow the else.
C6_IfFollowsGrammar ==
    /\ ~BranchRejected({"}else{\n"}, {"end"})
    /\ ~BranchRejected({"){\n"}, {"end", "else_"})
    /\ ~ElseAfterElse(code, 1, <<>>)

\* The declarations of the header: its lines after the boilerplate.
Declarations ==
    SelectSeq(header, LAMBDA h : h \notin {"#include <stdio.h>\n",
                                           "int main(void) {\n"})

Declaration(name) == "float " \o name \o ";\n"

\* C7: the header holds exactly one declaration for each name in symbols;
\* a let or an input appends the declaration of its name if the name is
\* new and nothing otherwise, and a let appends one assignment to the body.
C7_OneDeclarationPerName ==
    /\ [](/\ Len(Declarations) = Cardinality(symbols)
          /\ {Declarations[i] : i \in DOMAIN Declarations}
               = {Declaration(n) : n \in symbols})
    /\ [][(/\ At("statement")
           /\ curToken.kind \in {"let", "input"}
           /\ peekToken' # peekToken)
            => /\ symbols' = symbols \cup {peekToken.text}
               /\ header' = IF peekToken.text \in symbols
                            THEN header
                            ELSE Append(header, Declaration(peekToken.text))
               /\ curToken.kind = "let"
                    => code' = Append(code, peekToken.text \o "=")]_vars

\* C7's case: a let of a name that an earlier let or input declared.
C7_Witness ==
    /\ At("let_eq")
    /\ Len(code) >= 2
    /\ Last(code) = "x="
    /\ symbols = {"x"}
    /\ Len(header) = 3

\* C8: two runs over the same file write the same header and body and end
\* the same way, with the same diagnostic.
C8_RunsAgree == (run = 2 /\ status # "running") => Outcome = first

\* The newlines among the first n characters of the source.
NewlinesIn(n) == Cardinality({i \in 1..n : source[i] = "\n"})

\* The characters after the last newline among the first n of the source.
SinceNewline(n) ==
    n - (IF \E i \in 1..n : source[i] = "\n"
         THEN CHOOSE i \in 1..n :
                 source[i] = "\n" /\ \A j \in (i + 1)..n : source[j] # "\n"
         ELSE 0)

\* C9: the position of the current character is the number of newlines
\* consumed before it plus one, and the number of characters consumed
\* since the last of them plus one.
C9_PositionOfCurrentChar ==
    curPos < Len(source)
        => /\ curLine = NewlinesIn(curPos) + 1
           /\ linePos = SinceNewline(curPos) + 1

\* Where the getToken() called now finds its token: the first character
\* at or after curPos that is not a space, a tab or a carriage return.
TokenStart ==
    CHOOSE p \in curPos..Len(source) :
        /\ p = Len(source) \/ source[p + 1] \notin {" ", "\t", "\r"}
        /\ \A q \in curPos..(p - 1) : source[q + 1] \in {" ", "\t", "\r"}

\* The character of the source at the 0-based position p.
CharAt(p) == IF p >= Len(source) THEN NUL ELSE source[p + 1]

OneCharKind ==
    [c \in {"+", "-", "*", "/", "(", ")", "=", "<", ">"} |->
        CASE c = "+" -> "PLUS" [] c = "-" -> "MINUS" [] c = "*" -> "ASTERISK"
          [] c = "/" -> "SLASH" [] c = "(" -> "LPARENT" [] c = ")" -> "RPARENT"
          [] c = "=" -> "EQ" [] c = "<" -> "LT" [] c = ">" -> "GT"]

TwoCharKind ==
    [c \in {"=", "<", ">", "!"} |->
        CASE c = "=" -> "EQEQ" [] c = "<" -> "LTEQ" [] c = ">" -> "GTEQ"
          [] c = "!" -> "NOTEQ"]

\* C10: at = < > !, getToken() consumes two characters and returns the
\* two-character kind exactly when "=" follows; otherwise = < > consume
\* one character and ! aborts; + - * / ( ) consume one character whatever
\* follows.
C10_OperatorLookahead ==
    [][(status = "running" /\ stack = <<>>)
         => LET c == CharAt(TokenStart)
                two == c \in DOMAIN TwoCharKind /\ CharAt(TokenStart + 1) = "="
            IN  /\ (c \in DOMAIN TwoCharKind /\ two)
                     => /\ status' = "running"
                        /\ curPos' = TokenStart + 2
                        /\ peekToken'.kind = TwoCharKind[c]
                /\ (c \in DOMAIN OneCharKind /\ ~two)
                     => /\ status' = "running"
                        /\ curPos' = TokenStart + 1
                        /\ peekToken'.kind = OneCharKind[c]
                /\ (c = "!" /\ ~two) => status' = "aborted"]_vars

\* C10's case: the lexer has returned <= for "<" followed by "=".
C10_Witness ==
    /\ stack = <<>>
    /\ peekToken.kind = "LTEQ"
    /\ curPos = 2
    /\ source[1] = "<"

\* A run that ended in Lexer.abort on a character of a string literal.
StringAbort ==
    /\ status = "aborted"
    /\ diag.msg = "Lexing error. Illegal character in string: " \o curChar

\* C11: the run of a finite file ends, completing program() or aborting.
\* No getToken() scans past the end of the input: a token that is not EOF
\* ends within the source, and the scan of a string literal with no
\* closing quote aborts on a character of the source.  A call of
\* statement() or value() consumes the token it starts at or aborts (a
\* statement that is an expression passing its token on to expression()),
\* so the loops of program(), if and while end at the end of the input.
C11_RunTerminates ==
    /\ <>(status # "running")
    /\ [](/\ peekToken.kind # "EOF" => curPos <= Len(source)
          /\ StringAbort => (curPos < Len(source) /\ curChar = "\n"))
    /\ [][/\ At("statement")
             => \/ status' = "aborted"
                \/ curToken' # curToken
                \/ /\ curToken.kind = "IDENT"
                   /\ stack'[Len(stack')].pc = "expression"
          /\ At("value") => (status' = "aborted" \/ curToken' # curToken)]_vars

\* C11's case: a while or if block with no end, aborted at the end of the
\* input after a comment on the file's last line.
C11_Witness ==
    /\ status = "aborted"
    /\ curToken.kind = "EOF"
    /\ Len(stack) >= 2
    /\ stack[Len(stack) - 1].pc \in {"if_loop", "while_loop"}
    /\ Len(source) >= 3
    /\ SubSeq(source, Len(source) - 2, Len(source)) = LastComment

\* C11's other case: a string literal with no closing quote on the file's
\* last line, aborted at the appended newline.
C11_WitnessString ==
    /\ StringAbort
    /\ curPos = Len(source) - 1

===========================================================================
